---- MODULE Spec2Model ----
(***************************************************************************)
(* ratatui-auto-grid: auto_grid(area, n, spacing) of src/src/lib.rs.       *)
(*                                                                         *)
(* The function picks cols = ceil(sqrt(n)) and rows = ceil(n / cols),      *)
(* splits the area vertically into `rows` bands, splits every band         *)
(* horizontally into `cols` cells and pushes the cells in row-major order  *)
(* until `n` of them are in `out`.                                         *)
(*                                                                         *)
(* Layout::split is ratatui's, not this repository's: it is modelled from  *)
(* the specification's description of the splitting primitive (sections    *)
(* 4.2, 4.3, 6 and 9).  What that description leaves open is a choice the  *)
(* model makes in Init (the variable `solver`): which bands receive the    *)
(* remainder of an uneven division, and how the gaps are squeezed when the *)
(* requested spacing does not fit in the extent.                           *)
(***************************************************************************)
EXTENDS Integers, Sequences, FiniteSets, TLC

\* ------------------------------------------------------------------ bounds

\* Largest cell count of the stepwise specification.
MaxN == 9
\* Largest width and height of the small areas.
MaxDim == 4
\* Largest x of an area's origin (its y is 0 or MaxOrigin + 1).
MaxOrigin == 1
\* Largest spacing.
MaxSpacing == 2
\* Largest low limb of the cell counts of the wide specification.
MaxLo == 24

\* --------------------------------------------------- usize and u16 numbers

\* The largest u16: `as u16` (lines 34, 35) saturates a float there.
U16Max == 65535

\* A usize is kept as two limbs <<hi, lo>> of base 2^16: the counts at which
\* the u16 casts saturate are larger than the integers TLC computes with.
Base == U16Max + 1
Half == 2 ^ 8

USize(v) == <<v \div Base, v % Base>>

SizeLeq(a, b) == a[1] < b[1] \/ (a[1] = b[1] /\ a[2] <= b[2])

SizeMin(a, b) == IF SizeLeq(a, b) THEN a ELSE b

\* a * b as a usize, for 0 <= a, b <= Base + 2.
Mul(a, b) ==
  LET t1  == (a \div Half) * b
      t2  == (a % Half) * b
      low == (t1 % Half) * Half + t2
  IN  <<(t1 \div Half) + (low \div Base), low % Base>>

\* The least c in lo..hi with c * c >= nn (one exists for hi = Base).
RECURSIVE SqrtSearch(_, _, _)
SqrtSearch(nn, lo, hi) ==
  IF lo >= hi THEN hi
  ELSE LET mid == (lo + hi) \div 2
       IN  IF SizeLeq(nn, Mul(mid, mid))
           THEN SqrtSearch(nn, lo, mid)
           ELSE SqrtSearch(nn, mid + 1, hi)

\* (n as f64).sqrt().ceil(): for n < 2^32 the float is exact enough that
\* the ceiling is the mathematical one.
CeilSqrt(nn) == SqrtSearch(nn, 0, Base)

\* The least q in lo..hi with q * d >= nn.
RECURSIVE DivSearch(_, _, _, _)
DivSearch(nn, d, lo, hi) ==
  IF lo >= hi THEN hi
  ELSE LET mid == (lo + hi) \div 2
       IN  IF SizeLeq(nn, Mul(mid, d))
           THEN DivSearch(nn, d, lo, mid)
           ELSE DivSearch(nn, d, mid + 1, hi)

\* ((n as f64) / f64::from(d)).ceil(), for the d the code divides by:
\* the quotient is at most Base + 2 then.
CeilDiv(nn, d) == DivSearch(nn, d, 0, Base + 2)

\* `x as u16` of a non-negative float: saturating.
AsU16(v) == IF v > U16Max THEN U16Max ELSE v

\* ------------------------------------------------------ dimension selection

\* cols with floor(sqrt(n)) + 1 for the ceiling: one more on a perfect square.
ColsFloorPlusOne(nn) ==
  LET k == CeilSqrt(nn) IN AsU16(IF Mul(k, k) = nn THEN k + 1 ELSE k)

\* let cols = (n as f64).sqrt().ceil() as u16;
Cols(nn) == AsU16(CeilSqrt(nn))

\* rows with n / cols + 1 for the ceiling: one more when cols divides n.
RowsFloorPlusOne(nn) ==
  LET q == CeilDiv(nn, Cols(nn))
  IN  AsU16(IF Mul(q, Cols(nn)) = nn THEN q + 1 ELSE q)

\* let rows = ((n as f64) / f64::from(cols)).ceil() as u16;
Rows(nn) == AsU16(CeilDiv(nn, Cols(nn)))

\* ------------------------------------------------- the splitting primitive

Rect(x, y, w, h) == [x |-> x, y |-> y, width |-> w, height |-> h]

\* The spacing between k bands fits in the extent.
Fits(extent, k, s) == s * (k - 1) <= extent

\* The extent left for the bands: the spacing is subtracted first.
Avail(extent, k, s) == IF Fits(extent, k, s) THEN extent - s * (k - 1) ELSE 0

RECURSIVE SumTo(_, _)
SumTo(f, i) == IF i = 0 THEN 0 ELSE f[i] + SumTo(f, i - 1)

\* The bands that may receive the remainder of the division: any choice of
\* (Avail mod k) of them.
ExtraChoices(extent, k, s) ==
  {e \in SUBSET (1..k) : Cardinality(e) = Avail(extent, k, s) % k}

\* The gaps between adjacent bands: the spacing when it fits; when it does
\* not, the bands are empty and the gaps share the whole extent, none above
\* the spacing.
GapChoices(extent, k, s) ==
  IF Fits(extent, k, s)
  THEN {[i \in 1..(k - 1) |-> s]}
  ELSE {g \in [1..(k - 1) -> 0..s] : SumTo(g, k - 1) = extent}

\* One resolution of a split of `extent` into k bands.
Resolutions(extent, k, s) ==
  {[extra |-> e, gaps |-> g] :
     e \in ExtraChoices(extent, k, s), g \in GapChoices(extent, k, s)}

BandSize(extent, k, s, res, i) ==
  (Avail(extent, k, s) \div k) + (IF i \in res.extra THEN 1 ELSE 0)

RECURSIVE BandPos(_, _, _, _, _, _)
BandPos(start, extent, k, s, res, i) ==
  IF i = 1 THEN start
  ELSE BandPos(start, extent, k, s, res, i - 1)
         + BandSize(extent, k, s, res, i - 1) + res.gaps[i - 1]

\* Layout::vertical([Ratio(1, k); k]).spacing(s).split(a)
SplitVertical(a, k, s, res) ==
  [i \in 1..k |->
     Rect(a.x, BandPos(a.y, a.height, k, s, res, i),
          a.width, BandSize(a.height, k, s, res, i))]

\* Layout::horizontal([Ratio(1, k); k]).spacing(s).split(a)
SplitHorizontal(a, k, s, res) ==
  [i \in 1..k |->
     Rect(BandPos(a.x, a.width, k, s, res, i), a.y,
          BandSize(a.width, k, s, res, i), a.height)]

\* -------------------------------------------------------------- the state

VARIABLES
  area,       \* the area argument
  n,          \* the n argument, a usize
  spacing,    \* the spacing argument
  solver,     \* how the splitting primitive resolves this call's two splits
  cols,       \* let cols
  rows,       \* let rows
  row_areas,  \* let row_areas
  col_areas,  \* let col_areas of the current row
  r,          \* the outer loop's index
  c,          \* how many rects of col_areas the inner loop has taken
  out,        \* let mut out
  count,      \* out.len(), a usize
  pc          \* "start", "row", "cell", "loop" or "done"

vars == <<area, n, spacing, solver, cols, rows, row_areas, col_areas,
          r, c, out, count, pc>>

Zero == USize(0)

\* The areas of the tests (four_cells_perfect_square, nine_cells,
\* all_cells_within_bounds) beside the small ones.
TestAreas == {Rect(0, 0, 100, 100), Rect(0, 0, 99, 99), Rect(10, 10, 200, 150)}

\* The small areas: at the origin or away from it, with y unlike x.
Areas ==
  {Rect(x, y, w, h) : x \in 0..MaxOrigin, y \in {0, MaxOrigin + 1},
                      w \in 0..MaxDim, h \in 0..MaxDim}
  \cup TestAreas

NoResolution == [extra |-> {}, gaps |-> <<>>]

\* The primitive is a function of its input: one resolution for the rows'
\* split and one for the columns' split, the same for every row band (all
\* bands have the area's x and width).
SolverChoices(a, nn, s) ==
  IF nn = Zero
  THEN {[v |-> NoResolution, h |-> NoResolution]}
  ELSE {[v |-> rv, h |-> rh] :
          rv \in Resolutions(a.height, Rows(nn), s),
          rh \in Resolutions(a.width, Cols(nn), s)}

InitLocals ==
  /\ cols = 0
  /\ rows = 0
  /\ row_areas = <<>>
  /\ col_areas = <<>>
  /\ r = 0
  /\ c = 0
  /\ out = <<>>
  /\ count = Zero
  /\ pc = "start"

Init ==
  /\ area \in Areas
  /\ n \in {USize(v) : v \in 0..MaxN}
  /\ spacing \in 0..MaxSpacing
  /\ solver \in SolverChoices(area, n, spacing)
  /\ InitLocals

\* ------------------------------------------------------------ auto_grid

\* row_areas with the spacing added on top of the area's height.
RowAreasTaller ==
  SplitVertical(Rect(area.x, area.y, area.width,
                     area.height + spacing * (Rows(n) - 1)),
                Rows(n), spacing, solver.v)

\* Layout::vertical(row_constraints).spacing(spacing).split(area)
RowAreas == SplitVertical(area, Rows(n), spacing, solver.v)

\* col_areas with the spacing added on top of the row band's width.
ColAreasWider ==
  SplitHorizontal(Rect(row_areas[r + 1].x, row_areas[r + 1].y,
                       row_areas[r + 1].width + spacing * (cols - 1),
                       row_areas[r + 1].height),
                  cols, spacing, solver.h)

\* col_areas of the row bands taken from the last to the first.
ColAreasRowsReversed == SplitHorizontal(row_areas[rows - r], cols, spacing, solver.h)

\* col_areas without .spacing(spacing).
ColAreasNoSpacing == SplitHorizontal(row_areas[r + 1], cols, 0, solver.h)

\* col_areas of a split of the whole area instead of the row band.
ColAreasOfArea == SplitHorizontal(area, cols, spacing, solver.h)

\* Layout::horizontal(col_constraints.clone()).spacing(spacing).split(row_areas[r])
ColAreas == SplitHorizontal(row_areas[r + 1], cols, spacing, solver.h)

\* if n == 0 { return Vec::new(); }
ReturnEmpty ==
  /\ pc = "start"
  /\ n = Zero
  /\ out' = <<>>
  /\ count' = Zero
  /\ pc' = "done"
  /\ UNCHANGED <<area, n, spacing, solver, cols, rows, row_areas, col_areas, r, c>>

\* cols, rows, the constraints, row_areas, out and the outer loop's start.
Enter ==
  /\ pc = "start"
  /\ n # Zero
  /\ cols' = Cols(n)
  /\ rows' = Rows(n)
  /\ row_areas' = RowAreas
  /\ out' = <<>>
  /\ count' = Zero
  /\ r' = 0
  /\ pc' = "row"
  /\ UNCHANGED <<area, n, spacing, solver, col_areas, c>>

\* 'outer: for r in 0..rows: the row's col_areas.
RowSplit ==
  /\ pc = "row"
  /\ r < rows
  /\ col_areas' = ColAreas
  /\ c' = 0
  /\ pc' = "cell"
  /\ UNCHANGED <<area, n, spacing, solver, cols, rows, row_areas, r, out, count>>

\* The outer loop has run over every row: out is returned.
LoopEnd ==
  /\ pc = "row"
  /\ r >= rows
  /\ pc' = "done"
  /\ UNCHANGED <<area, n, spacing, solver, cols, rows, row_areas, col_areas,
                 r, c, out, count>>

\* if out.len() == n { break 'outer; }
BreakOuter ==
  /\ pc = "cell"
  /\ c < Len(col_areas)
  /\ count = n
  /\ pc' = "done"
  /\ UNCHANGED <<area, n, spacing, solver, cols, rows, row_areas, col_areas,
                 r, c, out, count>>

\* out.push(rect);
Push ==
  /\ pc = "cell"
  /\ c < Len(col_areas)
  /\ count # n
  /\ out' = Append(out, col_areas[c + 1])
  /\ count' = USize(Len(out) + 1)
  /\ c' = c + 1
  /\ UNCHANGED <<area, n, spacing, solver, cols, rows, row_areas, col_areas, r, pc>>

\* The inner loop has taken every rect of col_areas: the next row.
RowEnd ==
  /\ pc = "cell"
  /\ c >= Len(col_areas)
  /\ r' = r + 1
  /\ pc' = "row"
  /\ UNCHANGED <<area, n, spacing, solver, cols, rows, row_areas, col_areas,
                 c, out, count>>

Next ==
  \/ ReturnEmpty
  \/ Enter
  \/ RowSplit
  \/ LoopEnd
  \/ BreakOuter
  \/ Push
  \/ RowEnd

Spec == Init /\ [][Next]_vars

\* ------------------------------------- the same function on wide counts

\* What the two loops leave in out.len(): every one of the `rows` rounds
\* offers the `cols` rects of a split, and a push happens while
\* out.len() # n.
RunLength(nn, k, m) == SizeMin(nn, Mul(m, k))

WideCounts == {<<hi, lo>> : hi \in {0, 1, U16Max - 1, U16Max}, lo \in 0..MaxLo}

InitWide ==
  /\ area = Rect(0, 0, MaxDim, MaxDim)
  /\ n \in WideCounts
  /\ spacing = 0
  /\ solver = [v |-> NoResolution, h |-> NoResolution]
  /\ InitLocals

\* cols and rows of a non-zero count.
Dimension ==
  /\ pc = "start"
  /\ n # Zero
  /\ cols' = Cols(n)
  /\ rows' = Rows(n)
  /\ pc' = "loop"
  /\ UNCHANGED <<area, n, spacing, solver, row_areas, col_areas, r, c, out, count>>

\* The two loops, by their effect on out.len().
RunLoops ==
  /\ pc = "loop"
  /\ count' = RunLength(n, cols, rows)
  /\ pc' = "done"
  /\ UNCHANGED <<area, n, spacing, solver, cols, rows, row_areas, col_areas, r, c, out>>

NextWide ==
  \/ ReturnEmpty
  \/ Dimension
  \/ RunLoops

SpecWide == InitWide /\ [][NextWide]_vars

\* The stepwise loops leave in `count` what RunLength says.
LoopsAgreeWithRunLength ==
  (pc = "done" /\ n # Zero) => count = RunLength(n, cols, rows)

\* ------------------------------------------------------ the grid, closed

\* The cell at 0-based index i of the row-major enumeration of the grid of
\* k columns and m rows over `a` with spacing s, as split resolves it.
GridCell(a, k, m, s, sol, i) ==
  SplitHorizontal(SplitVertical(a, m, s, sol.v)[(i \div k) + 1], k, s, sol.h)[(i % k) + 1]

\* Cells i and i + 1 of out (1-based) are in the same row.
SameRow(i) == ((i - 1) \div cols) = (i \div cols)

\* The gap between cell i of a sequence of cells and its right neighbour.
GapAfter(cells, i) == cells[i + 1].x - (cells[i].x + cells[i].width)

Inside(rect, a) ==
  /\ rect.x >= a.x
  /\ rect.y >= a.y
  /\ rect.x + rect.width <= a.x + a.width
  /\ rect.y + rect.height <= a.y + a.height

Disjoint(p, q) ==
  \/ p.x + p.width <= q.x
  \/ q.x + q.width <= p.x
  \/ p.y + p.height <= q.y
  \/ q.y + q.height <= p.y

NonEmpty(rect) == rect.width > 0 /\ rect.height > 0

Entered == pc \in {"row", "cell", "done"} /\ n # Zero

\* ----------------------------------------------------------------- claims

\* C1: auto_grid returns a sequence of exactly n rectangles, for every
\* area, spacing and cell count n (the empty sequence for n = 0).
C1_LengthIsN == pc = "done" => count = n

\* C1 for the counts of the stepwise specification, whatever the area: the
\* returned sequence has n elements.
C1_LengthIsNSmall == pc = "done" => (Len(out) = n[2] /\ count = n)

\* C2: every rectangle of the output lies inside the area, also with a
\* non-zero origin and with a spacing larger than the area.
C2_WithinBounds == \A i \in 1..Len(out) : Inside(out[i], area)

\* C2's case: a call with cells returned for an area away from the origin
\* and a spacing larger than its width.
C2_Witness ==
  /\ pc = "done"
  /\ Len(out) >= 3
  /\ area.x > 0
  /\ area.y > 0
  /\ spacing > area.width
  /\ area.height > 0

\* C3, as stated: consecutive cells of a row have equal y and non-decreasing
\* x, and the first cell of a new row has a strictly greater y than the
\* cell before it, for any area.
C3_RowMajorStrict ==
  \A i \in 1..(Len(out) - 1) :
    IF SameRow(i)
    THEN out[i + 1].y = out[i].y /\ out[i + 1].x >= out[i].x
    ELSE out[i + 1].y > out[i].y

\* C3, amended: consecutive cells of a row have equal y and non-decreasing
\* x; the first cell of a new row starts at or below the bottom edge of the
\* cell before it, so its y is strictly greater when that cell has a
\* non-zero height or a non-zero spacing fits between the row bands.
C3_RowMajor ==
  \A i \in 1..(Len(out) - 1) :
    IF SameRow(i)
    THEN out[i + 1].y = out[i].y /\ out[i + 1].x >= out[i].x
    ELSE /\ out[i + 1].y >= out[i].y + out[i].height
         /\ (out[i].height > 0 \/ (spacing > 0 /\ Fits(area.height, rows, spacing)))
              => out[i + 1].y > out[i].y

\* C3's case: a finished call whose output crosses a row boundary and has
\* two cells in one row.
C3_Witness ==
  /\ pc = "done"
  /\ rows >= 2
  /\ Len(out) > cols
  /\ cols >= 2
  /\ area.height >= rows

\* C4: for n = 1 the output is the area itself, whatever the spacing.
C4_SingleCell == (pc = "done" /\ n = USize(1)) => out = <<area>>

\* C4's case: n = 1 with a non-zero spacing and an area away from the origin.
C4_Witness ==
  /\ pc = "done"
  /\ n = USize(1)
  /\ spacing > 0
  /\ area.x > 0
  /\ area.width > 0
  /\ area.height > 0

C6_EvenGrid ==
  /\ (pc = "done" /\ n # Zero /\ spacing = 0
        /\ area.width % cols = 0 /\ area.height % rows = 0) =>
       LET w == area.width \div cols
           h == area.height \div rows
       IN  \A i \in 1..Len(out) :
             out[i] = Rect(area.x + ((i - 1) % cols) * w,
                           area.y + ((i - 1) \div cols) * h, w, h)
  /\ (pc = "done" /\ n = USize(4) /\ spacing = 0 /\ area = Rect(0, 0, 100, 100)) =>
       out = <<Rect(0, 0, 50, 50), Rect(50, 0, 50, 50),
               Rect(0, 50, 50, 50), Rect(50, 50, 50, 50)>>
  /\ (pc = "done" /\ n = USize(9) /\ spacing = 0 /\ area = Rect(0, 0, 99, 99)) =>
       /\ Len(out) = 9
       /\ out[1] = Rect(0, 0, 33, 33)
       /\ out[9].x = 66
       /\ out[9].y = 66

\* C6's case: the nine cells of the 99x99 area without spacing.
C6_Witness ==
  /\ pc = "done"
  /\ n = USize(9)
  /\ spacing = 0
  /\ area = Rect(0, 0, 99, 99)

\* C7: no two distinct output cells of non-zero width and height overlap,
\* in one row or in different rows.
C7_NonOverlapping ==
  \A i \in 1..Len(out) : \A j \in (i + 1)..Len(out) :
    (NonEmpty(out[i]) /\ NonEmpty(out[j])) => Disjoint(out[i], out[j])

\* C7's case: a finished call with two rows of two columns or more, every
\* cell of non-zero size, and a spacing.
C7_Witness ==
  /\ pc = "done"
  /\ rows >= 2
  /\ cols >= 2
  /\ Len(out) >= 4
  /\ spacing > 0
  /\ \A i \in 1..Len(out) : NonEmpty(out[i])

\* C8: for every n >= 1, the stored cols is ceil(sqrt(n)) and the stored
\* rows is ceil(n / ceil(sqrt(n))), with cols * rows >= n; n = 1 gives
\* (1, 1) and a perfect square k * k gives cols = rows = k.
C8_DimsExact ==
  (pc \in {"row", "cell", "loop", "done"} /\ n # Zero) =>
    /\ cols = CeilSqrt(n)
    /\ rows = CeilDiv(n, CeilSqrt(n))
    /\ SizeLeq(n, Mul(cols, rows))
    /\ n = USize(1) => (cols = 1 /\ rows = 1)
    /\ Mul(CeilSqrt(n), CeilSqrt(n)) = n => (cols = CeilSqrt(n) /\ rows = cols)

\* C8 for the counts up to 65535 * 65535, the largest that neither cast
\* saturates on.
C8_DimsExactInRange ==
  SizeLeq(n, Mul(U16Max, U16Max)) => C8_DimsExact

\* The row bands of C9, once row_areas is set.
SumHeights == SumTo([i \in 1..Len(row_areas) |-> row_areas[i].height], Len(row_areas))

\* C9, as stated: the row bands span the full width, have strictly
\* increasing y without overlap, and their heights plus
\* spacing * (rows - 1) are at most the area's height, for every area and
\* spacing.
C9_RowSplitAll ==
  Entered =>
    /\ Len(row_areas) = rows
    /\ \A i \in 1..rows : row_areas[i].x = area.x /\ row_areas[i].width = area.width
    /\ \A i \in 1..(rows - 1) :
         /\ row_areas[i + 1].y > row_areas[i].y
         /\ row_areas[i + 1].y >= row_areas[i].y + row_areas[i].height
    /\ SumHeights + spacing * (rows - 1) <= area.height

\* C9, amended: the row bands span the full width, lie inside the area and
\* do not overlap (each starts at or below the bottom edge of the one
\* before); when the spacing fits (spacing * (rows - 1) <= area.height)
\* their heights plus spacing * (rows - 1) are at most the area's height,
\* and when every band has room for a row
\* (area.height >= rows + spacing * (rows - 1)) their y strictly increase.
C9_RowSplit ==
  Entered =>
    /\ Len(row_areas) = rows
    /\ \A i \in 1..rows :
         /\ row_areas[i].x = area.x
         /\ row_areas[i].width = area.width
         /\ Inside(row_areas[i], area)
    /\ \A i \in 1..(rows - 1) :
         /\ row_areas[i + 1].y >= row_areas[i].y + row_areas[i].height
         /\ area.height >= rows + spacing * (rows - 1)
              => row_areas[i + 1].y > row_areas[i].y
    /\ Fits(area.height, rows, spacing)
         => SumHeights + spacing * (rows - 1) <= area.height

\* C9's case: three row bands with a spacing that fits and room for every row.
C9_Witness ==
  /\ pc = "row"
  /\ rows = 3
  /\ spacing > 0
  /\ area.height >= rows + spacing * (rows - 1)
  /\ area.x > 0

\* C10: the loops emit exactly the first n cells of the row-major
\* enumeration of the rows x cols grid: out has n elements, the surplus
\* cols * rows - n is not negative and smaller than cols, so every row
\* band contributes a cell.
C10_FirstNCells ==
  (pc = "done" /\ n # Zero) =>
    /\ count = n
    /\ SizeLeq(n, Mul(cols, rows))
    /\ ~SizeLeq(n, Mul(cols, rows - 1))

\* C10 for the counts of the stepwise specification: at every step out is
\* a prefix of the row-major enumeration and never longer than n, and the
\* returned out has n elements, the last of them in the last row band.
C10_FirstNCellsSmall ==
  /\ Len(out) <= n[2]
  /\ \A i \in 1..Len(out) : out[i] = GridCell(area, cols, rows, spacing, solver, i - 1)
  /\ (pc = "done" /\ n # Zero) =>
       /\ Len(out) = n[2]
       /\ cols * rows - n[2] \in 0..(cols - 1)
       /\ (n[2] - 1) \div cols = rows - 1

====
